---- MODULE Spec2Model ----
(***************************************************************************)
(* Wildfire risk engine of ForestProject-Backend (src/src/lib/             *)
(* dangerLevels.ts): the threshold classifier, the historical record       *)
(* store and its one-time load, the scorer, the active-fire penalty check  *)
(* and the getWildfireRisk orchestrator, as a state machine whose          *)
(* processes are getWildfireRisk calls that suspend at the awaited feed    *)
(* fetch.                                                                  *)
(*                                                                         *)
(* Representation.  Coordinates are integers in arc units of one kilometre *)
(* on a meridian (1 degree = 111.195 units), distances are metres, scores  *)
(* are fixed-point numbers in units of 1/ScoreScale, optional fields are   *)
(* sets with at most one element ({} is undefined), dates are records      *)
(* [y, m, d] read in UTC.                                                  *)
(***************************************************************************)
EXTENDS Integers, Sequences, FiniteSets, TLC

\* fileStatus: whether each dataset file can be read and parsed;
\* historicalData, loaded: the module state of dangerLevels.ts;
\* now: the date new Date() returns; requests: the inputs callers send;
\* feed: the document the active-fire endpoint serves; call: the calls of
\* getWildfireRisk in flight.
VARIABLES fileStatus, historicalData, loaded, now, requests, feed, call, handlers, dangerZones

vars == <<fileStatus, historicalData, loaded, now, requests, feed, call, handlers, dangerZones>>

(***************************************************************************)
(* Optional values                                                         *)
(***************************************************************************)
None == {}

Some(v) == {v}

Val(x) == CHOOSE v \in x : TRUE

Max(a, b) == IF a >= b THEN a ELSE b

Min(a, b) == IF a <= b THEN a ELSE b

Abs(a) == IF a >= 0 THEN a ELSE 0 - a

(***************************************************************************)
(* Danger levels, weakest to strongest                                     *)
(***************************************************************************)
dangerLevels == <<"no risk", "normal", "low", "medium", "high", "very high", "extreme">>

indexOf(level) == CHOOSE i \in 1..Len(dangerLevels) : dangerLevels[i] = level

(***************************************************************************)
(* PART 2: basic threshold logic (assessDangerLevel)                       *)
(***************************************************************************)
TEMP_THRESHOLDS == [extreme |-> 60, veryHigh |-> 45, high |-> 35, medium |-> 25, low |-> 15, normal |-> 5]

AQI_THRESHOLDS == [extreme |-> 300, veryHigh |-> 200, high |-> 150, medium |-> 100, low |-> 50, normal |-> 0]

tempLevelOf(temperature) ==
    IF temperature >= TEMP_THRESHOLDS.extreme THEN "extreme"
    ELSE IF temperature >= TEMP_THRESHOLDS.veryHigh THEN "very high"
    ELSE IF temperature >= TEMP_THRESHOLDS.high THEN "high"
    ELSE IF temperature >= TEMP_THRESHOLDS.medium THEN "medium"
    ELSE IF temperature >= TEMP_THRESHOLDS.low THEN "low"
    ELSE IF temperature >= TEMP_THRESHOLDS.normal THEN "normal"
    ELSE "no risk"

aqiLevelOf(airQuality) ==
    IF airQuality = None THEN "no risk"
    ELSE IF Val(airQuality) >= AQI_THRESHOLDS.extreme THEN "extreme"
    ELSE IF Val(airQuality) >= AQI_THRESHOLDS.veryHigh THEN "very high"
    ELSE IF Val(airQuality) >= AQI_THRESHOLDS.high THEN "high"
    ELSE IF Val(airQuality) >= AQI_THRESHOLDS.medium THEN "medium"
    ELSE IF Val(airQuality) >= AQI_THRESHOLDS.low THEN "low"
    ELSE "normal"

\* Mutant of assessDangerLevel: the extreme temperature bound taken exclusive.
assessDangerLevel_strictExtreme(data) ==
    LET tempLevel == IF data.temperature = TEMP_THRESHOLDS.extreme
                     THEN "very high" ELSE tempLevelOf(data.temperature)
        aqiLevel == aqiLevelOf(data.airQuality)
        overallLevel == dangerLevels[Max(indexOf(tempLevel), indexOf(aqiLevel))]
    IN  [level |-> overallLevel, tempLevel |-> tempLevel, aqiLevel |-> aqiLevel,
         described |-> overallLevel # "no risk"]

\* Mutant of assessDangerLevel: the weaker of the two per-factor levels wins.
assessDangerLevel_weaker(data) ==
    LET tempLevel == tempLevelOf(data.temperature)
        aqiLevel == aqiLevelOf(data.airQuality)
        overallLevel == dangerLevels[Min(indexOf(tempLevel), indexOf(aqiLevel))]
    IN  [level |-> overallLevel, tempLevel |-> tempLevel, aqiLevel |-> aqiLevel,
         described |-> overallLevel # "no risk"]

\* The description is "Temperature classification: <tempLevel>. AQI
\* classification: <aqiLevel>." when described, else the "no significant
\* environmental concerns" sentence.
assessDangerLevel(data) ==
    LET tempLevel == tempLevelOf(data.temperature)
        aqiLevel == aqiLevelOf(data.airQuality)
        overallLevel == dangerLevels[Max(indexOf(tempLevel), indexOf(aqiLevel))]
    IN  [level |-> overallLevel, tempLevel |-> tempLevel, aqiLevel |-> aqiLevel,
         described |-> overallLevel # "no risk"]

(***************************************************************************)
(* Geo-distance utility (lib/utils.ts, calculateDistance): great-circle    *)
(* distance on a sphere of radius 6371 km, in metres.  One arc unit is one *)
(* kilometre on a meridian, so two points of equal longitude are           *)
(* 1000 * |dLat| metres apart; for other pairs the east-west leg is        *)
(* shortened by the cosine of the latitude.                                *)
(***************************************************************************)
UnitsPerDegree == 111

MetresPerUnit == 1000

\* cos(latitude) in thousandths, by bands of ten degrees.
CosPermille(lat) ==
    LET band == Min(Abs(lat) \div (10 * UnitsPerDegree), 9)
    IN  <<1000, 985, 940, 866, 766, 643, 500, 342, 174, 0>>[band + 1]

\* The integer square root of n, searched upwards from r (r * r <= n), by
\* strides of 1024 and of 64 while they fit and by ones after.
RECURSIVE ISqrtFrom(_, _)
ISqrtFrom(n, r) ==
    IF (r + 1024) * (r + 1024) <= n THEN ISqrtFrom(n, r + 1024)
    ELSE IF (r + 64) * (r + 64) <= n THEN ISqrtFrom(n, r + 64)
    ELSE IF (r + 1) * (r + 1) > n THEN r
    ELSE ISqrtFrom(n, r + 1)

calculateDistance(lat1, lng1, lat2, lng2) ==
    IF lng1 = lng2 THEN MetresPerUnit * Abs(lat1 - lat2)
    ELSE LET ns == Abs(lat1 - lat2)
             ew == (CosPermille(lat1) * Abs(lng1 - lng2)) \div 1000
         IN  MetresPerUnit * ISqrtFrom(ns * ns + ew * ew, Max(ns, ew))

\* A distance limit of the code, given in kilometres.
Km(k) == 1000 * k

\* The latitude and longitude bounds of the seasonality factor (55 and -120
\* degrees) in arc units: lat > 55 and lng < -120.
North55(lat) == lat >= 6116

West120(lng) == lng <= 0 - 13344

(***************************************************************************)
(* Dates.  "YYYY-MM-DD" is [y, m, d]; new Date(str) reads it as UTC        *)
(* midnight.                                                               *)
(***************************************************************************)
DaysFromCivil(date) ==
    LET y == IF date.m <= 2 THEN date.y - 1 ELSE date.y
        era == y \div 400
        yoe == y - era * 400
        mp == (date.m + 9) % 12
        doy == (153 * mp + 2) \div 5 + date.d - 1
        doe == yoe * 365 + yoe \div 4 - yoe \div 100 + doy
    IN  era * 146097 + doe - 719468

EpochDate == [y |-> 1970, m |-> 1, d |-> 1]

(***************************************************************************)
(* PART 3: historical record loading                                       *)
(***************************************************************************)
\* String.prototype.trim().toUpperCase() on the cause strings of the datasets.
TrimUpper(s) ==
    CASE s = "man" -> "MAN"
      [] s = " ltg " -> "LTG"
      [] s = "Lightning" -> "LIGHTNING"
      [] s = "h" -> "H"
      [] s = "Spont" -> "SPONT"
      [] s = "campfire" -> "CAMPFIRE"
      [] OTHER -> s

\* String.prototype.trim().toLowerCase() on the severity strings of the datasets.
TrimLower(s) ==
    CASE s = "Low" -> "low"
      [] s = "Very Low" -> "very low"
      [] s = "MEDIUM" -> "medium"
      [] s = "High" -> "high"
      [] s = " Very High " -> "very high"
      [] s = "Extreme Fire" -> "extreme fire"
      [] s = "Human" -> "human"
      [] s = "Lightning" -> "lightning"
      [] s = "Spontaneous" -> "spontaneous"
      [] s = "Unknown" -> "unknown"
      [] s = "CAMPFIRE" -> "campfire"
      [] OTHER -> s

\* String.prototype.includes on lower-cased severity strings.
Includes(s, sub) ==
    CASE sub = "very low" -> s \in {"very low"}
      [] sub = "extreme" -> s \in {"extreme", "extreme fire"}
      [] sub = "very high" -> s \in {"very high"}
      [] sub = "high" -> s \in {"high", "very high"}
      [] sub = "medium" -> s \in {"medium"}
      [] OTHER -> FALSE

unifyCause(causeVal) ==
    IF causeVal = None THEN "Unknown"
    ELSE LET c == TrimUpper(Val(causeVal))
         IN  IF c \in {"MAN", "PERSON", "H"} THEN "Human"
             ELSE IF c \in {"LTG", "LIGHTNING"} THEN "Lightning"
             ELSE IF c \in {"SPONTANEOUS", "SPONT"} THEN "Spontaneous"
             ELSE c

unifySeverity(sevVal) ==
    IF sevVal = None THEN "low"
    ELSE LET s == TrimLower(Val(sevVal))
         IN  IF Includes(s, "very low") THEN "low"
             ELSE IF Includes(s, "extreme") THEN "extreme"
             ELSE IF Includes(s, "very high") THEN "very high"
             ELSE s

\* A raw entry is an object (its fields optional), a null, or a scalar.  An
\* object's location is absent ({}) or holds latitude and longitude, each
\* {} when it is not a number (a NaN token read as null, a string).
\* unifyRecord throws on a null entry (raw.Year of null), returns null for an
\* entry without numeric coordinates, and the unified record otherwise.
unifyThrows(raw) == raw.kind = "null"

hasCoordinates(raw) ==
    /\ raw.kind = "object"
    /\ raw.location # None
    /\ Val(raw.location).latitude # None
    /\ Val(raw.location).longitude # None

unifyDate(raw) ==
    LET hasYear == raw.Year # None /\ raw.Month # None
    IN  IF hasYear
        THEN LET m == Val(raw.Month)
                 safeMonth == IF m >= 1 /\ m <= 12 THEN m ELSE 1
                 safeDay == IF raw.Day # None /\ Val(raw.Day) >= 1 /\ Val(raw.Day) <= 31
                            THEN Val(raw.Day) ELSE 1
             IN  [y |-> Val(raw.Year), m |-> safeMonth, d |-> safeDay]
        ELSE IF raw.date # None THEN Val(raw.date)
        ELSE EpochDate

\* The unified record of an entry that has coordinates.
unifyRecord(raw) ==
    [fire_id |-> IF raw.fire_id # None THEN ToString(Val(raw.fire_id)) ELSE "unknown-id",
     date |-> unifyDate(raw),
     cause |-> unifyCause(raw.cause),
     area_burned |-> IF raw.area_burned # None THEN Val(raw.area_burned) ELSE 0,
     severity |-> unifySeverity(raw.severity),
     location |-> [latitude |-> Val(Val(raw.location).latitude),
                   longitude |-> Val(Val(raw.location).longitude)]]

(***************************************************************************)
(* The five datasets under public/.  Their content is fixed data of the    *)
(* deployment: RecordsPerFile entries each, spread around (BaseLat,        *)
(* BaseLng), with the defects real datasets show: an entry without         *)
(* location, a NaN latitude, a scalar entry, a null entry, an entry dated  *)
(* by a date string, an entry whose Month and Day are out of range.        *)
(* Whether a file can be read and parsed is fileStatus.                    *)
(***************************************************************************)
files == <<"wildfire_data_1_part1.json", "wildfire_data_1_part2.json",
           "wildfire_data_part1.json", "wildfire_data_part2.json",
           "wildfire_data_2.json">>

Files == 1..Len(files)

RecordsPerFile == 6

\* 55.0 degrees north, 125.0 degrees west.
BasePoint == [lat |-> 6116, lng |-> -13899]

BaseLat == BasePoint.lat

BaseLng == BasePoint.lng

FileStatuses == {"ok", "unreadable", "malformed"}

RawCauses == <<"man", " ltg ", "Lightning", "h", "Spont", "campfire">>

RawSeverities == <<"Low", "Very Low", "MEDIUM", "High", " Very High ", "Extreme Fire", "moderate">>

EntryNo(f, j) == (f - 1) * RecordsPerFile + j

\* Entries 1 of the last two files lie beyond 50 km and beyond 75 km of the
\* base point; the others within 40 km north or 20 km south of it.
EntryLat(f, j) ==
    IF j = 1 /\ f = 4 THEN BaseLat + 61
    ELSE IF j = 1 /\ f = 5 THEN BaseLat + 77
    ELSE BaseLat + ((EntryNo(f, j) * 13) % 60) - 20

RawObject(f, j) ==
    LET k == EntryNo(f, j)
    IN  [kind |-> "object",
         fire_id |-> IF k % 5 = 0 THEN None ELSE Some(k),
         Year |-> Some(2010 + ((k * 7) % 16)),
         Month |-> Some(1 + ((k * 5) % 12)),
         Day |-> Some(1 + ((k * 3) % 28)),
         date |-> None,
         cause |-> IF k % 7 = 0 THEN None ELSE Some(RawCauses[1 + (k % Len(RawCauses))]),
         severity |-> IF k % 8 = 0 THEN None
                      ELSE Some(RawSeverities[1 + (k % Len(RawSeverities))]),
         area_burned |-> IF k % 4 = 0 THEN None ELSE Some((k % 3) * 300),
         location |-> Some([latitude |-> Some(EntryLat(f, j)), longitude |-> Some(BaseLng)])]

RawEntry(f, j) ==
    LET o == RawObject(f, j)
    IN  CASE f = 2 /\ j = 2 -> [o EXCEPT !.location = None]
          [] f = 3 /\ j = 3 ->
               [o EXCEPT !.location = Some([latitude |-> None, longitude |-> Some(BaseLng)])]
          [] f = 1 /\ j = 5 -> [kind |-> "scalar"]
          [] f = 4 /\ j = 4 -> [kind |-> "null"]
          [] f = 5 /\ j = 2 ->
               [o EXCEPT !.Year = None, !.Month = None, !.Day = None,
                         !.date = Some([y |-> 2024, m |-> 7, d |-> 15])]
          [] f = 5 /\ j = 3 -> [o EXCEPT !.Month = Some(13), !.Day = None]
          [] f = 3 /\ j = 5 -> [o EXCEPT !.Year = None, !.Month = None, !.Day = None]
          [] OTHER -> o

FileContents(f) == [j \in 1..RecordsPerFile |-> RawEntry(f, j)]

\* The records one pass over a parsed file pushes before the pass ends: a
\* null entry makes unifyRecord throw, which the file's catch turns into the
\* end of that file; an entry without coordinates is skipped.
RECURSIVE PushedFrom(_, _)
PushedFrom(rawArray, j) ==
    IF j > Len(rawArray) \/ unifyThrows(rawArray[j]) THEN <<>>
    ELSE IF hasCoordinates(rawArray[j])
         THEN <<unifyRecord(rawArray[j])>> \o PushedFrom(rawArray, j + 1)
         ELSE PushedFrom(rawArray, j + 1)

\* One iteration of the loop over the files, inside its try/catch.
LoadFile(data, f) ==
    IF fileStatus[f] # "ok" THEN data
    ELSE data \o PushedFrom(FileContents(f), 1)

\* Mutant of LoadFiles: the first file that fails ends the loop.
RECURSIVE LoadFiles_abort(_, _)
LoadFiles_abort(data, f) ==
    IF f > Len(files) \/ fileStatus[f] # "ok" THEN data
    ELSE LoadFiles_abort(LoadFile(data, f), f + 1)

RECURSIVE LoadFiles(_, _)
LoadFiles(data, f) ==
    IF f > Len(files) THEN data ELSE LoadFiles(LoadFile(data, f), f + 1)

\* Mutant of loadHistoricalWildfireData: the load guard is not consulted.
loadHistoricalWildfireData_unguarded(data, isLoaded) ==
    [historicalData |-> LoadFiles(data, 1), loaded |-> TRUE]

\* Mutant of loadHistoricalWildfireData: a call after the first empties the
\* store.
loadHistoricalWildfireData_resetting(data, isLoaded) ==
    IF isLoaded THEN [historicalData |-> <<>>, loaded |-> isLoaded]
    ELSE [historicalData |-> LoadFiles(data, 1), loaded |-> TRUE]

\* loadHistoricalWildfireData on the module state (data, isLoaded): the new
\* historicalData and loaded.
loadHistoricalWildfireData(data, isLoaded) ==
    IF isLoaded THEN [historicalData |-> data, loaded |-> isLoaded]
    ELSE [historicalData |-> LoadFiles(data, 1), loaded |-> TRUE]

(***************************************************************************)
(* PART 4: weighting and penalty functions.  Factors and scores are        *)
(* fixed-point: the number x is the integer x * ScoreScale, products are   *)
(* rounded down.                                                           *)
(***************************************************************************)
ScoreScale == 10000

Fx(whole) == whole * ScoreScale

FxMul(a, b) == (a * b) \div ScoreScale

\* yearsAgo <= n, with msInYear = 365 days and both instants at UTC midnight.
YearsAgoAtMost(dateStr, n) == DaysFromCivil(now) - DaysFromCivil(dateStr) <= n * 365

getRecencyFactor(dateStr) ==
    IF YearsAgoAtMost(dateStr, 2) THEN Fx(1)
    ELSE IF YearsAgoAtMost(dateStr, 5) THEN 8000
    ELSE IF YearsAgoAtMost(dateStr, 10) THEN 5000
    ELSE 2000

getCauseFactor(cause) ==
    LET c == TrimLower(cause)
    IN  IF c = "lightning" THEN 12000
        ELSE IF c = "human" THEN 11000
        ELSE IF c = "spontaneous" THEN 10500
        ELSE Fx(1)

\* getMonth() is zero-based: fireMonth >= 4 /\ fireMonth <= 8 is May..September.
getSeasonalityFactor(fireDateStr, lat, lng) ==
    LET currentMonth == now.m - 1
        fireMonth == fireDateStr.m - 1
        f1 == IF North55(lat) THEN FxMul(Fx(1), 10500) ELSE Fx(1)
        f2 == IF West120(lng) THEN FxMul(f1, 10200) ELSE f1
        f3 == IF fireMonth = currentMonth THEN FxMul(f2, 11500) ELSE f2
        f4 == IF fireMonth >= 4 /\ fireMonth <= 8 THEN FxMul(f3, 11000) ELSE f3
    IN  f4

getDistanceWeight(distKm, maxRadius) ==
    IF distKm <= Km(10) THEN Fx(1)
    ELSE IF distKm >= maxRadius THEN 1000
    ELSE Fx(1) - (9000 * (distKm - Km(10))) \div (maxRadius - Km(10))

getPenaltyByConsecutiveCount(count) ==
    IF count = 2 THEN 2000
    ELSE IF count = 3 THEN 5000
    ELSE IF count >= 4 THEN Fx(1)
    ELSE 0

\* Array.prototype.sort((a, b) => a - b): insertion of each element after
\* the elements not greater than it.
RECURSIVE InsertNumber(_, _)
InsertNumber(sorted, x) ==
    IF sorted = <<>> THEN <<x>>
    ELSE IF x < Head(sorted) THEN <<x>> \o sorted
    ELSE <<Head(sorted)>> \o InsertNumber(Tail(sorted), x)

RECURSIVE SortNumbers(_)
SortNumbers(xs) ==
    IF xs = <<>> THEN <<>>
    ELSE InsertNumber(SortNumbers(SubSeq(xs, 1, Len(xs) - 1)), xs[Len(xs)])

\* The loop of getConsecutiveYearPenalty from index i on (one-based), with
\* the running totalPenalty and consecutiveCount; the final run is added at
\* the end.
RECURSIVE ConsecutiveLoop(_, _, _, _)
ConsecutiveLoop(years, i, totalPenalty, consecutiveCount) ==
    IF i > Len(years) - 1
    THEN IF consecutiveCount >= 2
         THEN totalPenalty + getPenaltyByConsecutiveCount(consecutiveCount)
         ELSE totalPenalty
    ELSE IF years[i + 1] = years[i] + 1
         THEN ConsecutiveLoop(years, i + 1, totalPenalty, consecutiveCount + 1)
         ELSE ConsecutiveLoop(years, i + 1,
                  IF consecutiveCount >= 2
                  THEN totalPenalty + getPenaltyByConsecutiveCount(consecutiveCount)
                  ELSE totalPenalty,
                  1)

getConsecutiveYearPenalty(fires) ==
    IF Len(fires) < 2 THEN 0
    ELSE LET years == SortNumbers([i \in 1..Len(fires) |-> fires[i].date.y])
         IN  ConsecutiveLoop(years, 1, 0, 1)

RECURSIVE SumOver(_, _)
SumOver(S, f) ==
    IF S = {} THEN 0
    ELSE LET x == CHOOSE x \in S : TRUE IN f[x] + SumOver(S \ {x}, f)

getOverlappingFiresPenalty(fires) ==
    LET ys == {fires[i].date.y : i \in 1..Len(fires)}
        yearCounts == [y \in ys |-> Cardinality({i \in 1..Len(fires) : fires[i].date.y = y})]
    IN  SumOver(ys, [y \in ys |-> IF yearCounts[y] > 1 THEN (yearCounts[y] - 1) * 1000 ELSE 0])

adjustSeverityForLandscape(severity, yearsAgo, terrainType) ==
    LET s == TrimLower(severity)
        base == IF Includes(s, "extreme") \/ Includes(s, "very high") THEN Fx(3)
                ELSE IF Includes(s, "high") THEN Fx(2)
                ELSE IF Includes(s, "medium") THEN Fx(1)
                ELSE 0
    IN  IF terrainType = "grassland" /\ yearsAgo > 5 THEN FxMul(base, 5000) ELSE base

(***************************************************************************)
(* PART 5: main scoring function                                           *)
(***************************************************************************)
fireScore(env, fire, maxRadius) ==
    LET dist == calculateDistance(env.location.lat, env.location.lng,
                                  fire.location.latitude, fire.location.longitude)
        recencyFactor == getRecencyFactor(fire.date)
        causeFactor == getCauseFactor(fire.cause)
        seasonalityFactor == getSeasonalityFactor(fire.date, fire.location.latitude,
                                                  fire.location.longitude)
        distanceFactor == getDistanceWeight(dist, maxRadius)
        yearsAgo == now.y - fire.date.y
        severityValue == adjustSeverityForLandscape(fire.severity, yearsAgo, "unknown")
        areaFactor == IF fire.area_burned > 500 THEN 15000 ELSE Fx(1)
    IN  FxMul(FxMul(FxMul(FxMul(FxMul(severityValue, areaFactor), recencyFactor),
                          causeFactor), seasonalityFactor), distanceFactor)

RECURSIVE historicalScoreOf(_, _, _)
historicalScoreOf(env, fires, maxRadius) ==
    IF fires = <<>> THEN 0
    ELSE historicalScoreOf(env, SubSeq(fires, 1, Len(fires) - 1), maxRadius)
         + fireScore(env, fires[Len(fires)], maxRadius)

temperatureBonus(env) ==
    IF env.temperature >= 60 THEN 20
    ELSE IF env.temperature >= 45 THEN 10
    ELSE IF env.temperature >= 35 THEN 5
    ELSE IF env.temperature >= 25 THEN 2
    ELSE 0

\* Mutant of airQualityBonus: an absent airQuality counts as the worst.
airQualityBonus_absentCounts(env) ==
    IF env.airQuality = None \/ Val(env.airQuality) >= 300 THEN 5
    ELSE IF Val(env.airQuality) >= 200 THEN 3
    ELSE IF Val(env.airQuality) >= 150 THEN 2
    ELSE IF Val(env.airQuality) >= 100 THEN 1
    ELSE 0

airQualityBonus(env) ==
    IF env.airQuality = None THEN 0
    ELSE IF Val(env.airQuality) >= 300 THEN 5
    ELSE IF Val(env.airQuality) >= 200 THEN 3
    ELSE IF Val(env.airQuality) >= 150 THEN 2
    ELSE IF Val(env.airQuality) >= 100 THEN 1
    ELSE 0

drynessBonus(env) ==
    IF env.drynessIndex = None THEN 0
    ELSE IF Val(env.drynessIndex) >= 90 THEN 8
    ELSE IF Val(env.drynessIndex) >= 80 THEN 5
    ELSE IF Val(env.drynessIndex) >= 60 THEN 2
    ELSE 0

humidityBonus(env) ==
    IF env.humidity = None THEN 0
    ELSE IF Val(env.humidity) < 10 THEN 6
    ELSE IF Val(env.humidity) < 20 THEN 3
    ELSE IF Val(env.humidity) < 30 THEN 1
    ELSE 0

windBonus(env) ==
    IF env.windSpeed = None THEN 0
    ELSE IF Val(env.windSpeed) > 60 THEN 8
    ELSE IF Val(env.windSpeed) > 40 THEN 4
    ELSE IF Val(env.windSpeed) > 25 THEN 2
    ELSE 0

timeOfDayBonus(env) ==
    IF env.timeOfDay # None /\ Val(env.timeOfDay) >= 13 /\ Val(env.timeOfDay) <= 17
    THEN 1 ELSE 0

computeRiskFromHistoryAndRealTime(env, fires, maxRadius) ==
    LET historicalScore == historicalScoreOf(env, fires, maxRadius)
        consecutivePenalty == getConsecutiveYearPenalty(fires)
        overlapPenalty == getOverlappingFiresPenalty(fires)
        frequencyScore == Fx(Min(Len(fires), 5))
    IN  historicalScore + consecutivePenalty + overlapPenalty + frequencyScore
        + Fx(temperatureBonus(env) + airQualityBonus(env) + drynessBonus(env)
             + humidityBonus(env) + windBonus(env) + timeOfDayBonus(env))

(***************************************************************************)
(* PART 7: active-fire GeoJSON check.  A feature is null or has an         *)
(* optional geometry [type, coordinates]; coordinates are optional and     *)
(* tagged by their nesting: "rings" (a list of rings of <<lng, lat>>       *)
(* points, the Polygon shape), "polygons" (a list of such lists, the       *)
(* MultiPolygon shape) or "point" (a bare <<lng, lat>>).                   *)
(***************************************************************************)
BoxSentinel == 9999 * 112

RECURSIVE BoxOverPoints(_, _)
\* The four running minima and maxima after the points of one ring.
BoxOverPoints(ring, box) ==
    IF ring = <<>> THEN box
    ELSE LET lng == Head(ring)[1]
             lat == Head(ring)[2]
         IN  BoxOverPoints(Tail(ring),
                 [minLat |-> IF lat < box.minLat THEN lat ELSE box.minLat,
                  maxLat |-> IF lat > box.maxLat THEN lat ELSE box.maxLat,
                  minLng |-> IF lng < box.minLng THEN lng ELSE box.minLng,
                  maxLng |-> IF lng > box.maxLng THEN lng ELSE box.maxLng])

RECURSIVE BoxOverRings(_, _)
BoxOverRings(rings, box) ==
    IF rings = <<>> THEN box
    ELSE BoxOverRings(Tail(rings), BoxOverPoints(Head(rings), box))

RECURSIVE BoxOverPolygons(_, _)
BoxOverPolygons(polygons, box) ==
    IF polygons = <<>> THEN box
    ELSE BoxOverPolygons(Tail(polygons), BoxOverRings(Head(polygons), box))

EmptyBox == [minLat |-> BoxSentinel, maxLat |-> 0 - BoxSentinel,
             minLng |-> BoxSentinel, maxLng |-> 0 - BoxSentinel]

\* Whether getBoundingBox throws a TypeError: a Polygon whose coords[0] is
\* undefined or a number, a MultiPolygon one of whose elements is not a list
\* of lists of points.
getBoundingBoxThrows(type, coords) ==
    CASE type = "Polygon" ->
            \/ coords.shape = "point"
            \/ coords.shape = "rings" /\ coords.rings = <<>>
            \/ coords.shape = "polygons" /\ coords.polygons = <<>>
      [] type = "MultiPolygon" ->
            \/ coords.shape = "point"
            \/ coords.shape = "rings" /\ \E r \in 1..Len(coords.rings) : coords.rings[r] # <<>>
      [] OTHER -> FALSE

\* The box getBoundingBox returns when it does not throw.  A Polygon read
\* from MultiPolygon-shaped coordinates compares arrays with numbers, which
\* is always false, and keeps the sentinels.
getBoundingBox(type, coords) ==
    CASE type = "Polygon" /\ coords.shape = "rings" -> BoxOverPoints(coords.rings[1], EmptyBox)
      [] type = "MultiPolygon" /\ coords.shape = "polygons" ->
            BoxOverPolygons(coords.polygons, EmptyBox)
      [] OTHER -> EmptyBox

\* Mutant of isPointInBoundingBox: the bounds taken exclusive.
isPointInBoundingBox_exclusive(lat, lng, box) ==
    lat > box.minLat /\ lat < box.maxLat /\ lng > box.minLng /\ lng < box.maxLng

isPointInBoundingBox(lat, lng, box) ==
    lat >= box.minLat /\ lat <= box.maxLat /\ lng >= box.minLng /\ lng <= box.maxLng

RECURSIVE ScanFeatures(_, _, _, _)
\* The loop over geojson.features from index i on: [threw, penalty].
ScanFeatures(features, i, lat, lng) ==
    IF i > Len(features) THEN [threw |-> FALSE, penalty |-> 0]
    ELSE LET feature == features[i]
         IN  IF feature.kind = "null" THEN [threw |-> TRUE, penalty |-> 0]
             ELSE IF feature.geometry = None THEN ScanFeatures(features, i + 1, lat, lng)
             ELSE LET geometry == Val(feature.geometry)
                  IN  IF geometry.coordinates = None
                      THEN ScanFeatures(features, i + 1, lat, lng)
                      ELSE LET coords == Val(geometry.coordinates)
                           IN  IF getBoundingBoxThrows(geometry.type, coords)
                               THEN [threw |-> TRUE, penalty |-> 0]
                               ELSE IF isPointInBoundingBox(lat, lng,
                                          getBoundingBox(geometry.type, coords))
                                    THEN [threw |-> FALSE, penalty |-> 5]
                                    ELSE ScanFeatures(features, i + 1, lat, lng)

\* Mutant of PenaltyOfBody: every feature whose box holds the point adds 5.
RECURSIVE CountMatches(_, _, _, _)
CountMatches(features, i, lat, lng) ==
    IF i > Len(features) THEN 0
    ELSE CountMatches(features, i + 1, lat, lng)
         + (IF ScanFeatures(<<features[i]>>, 1, lat, lng).penalty > 0 THEN 5 ELSE 0)

PenaltyOfBody_accumulate(env, geojson) ==
    IF geojson.kind = "null" \/ geojson.features = None \/ ~Val(geojson.features).isArray
    THEN 0
    ELSE IF ScanFeatures(Val(geojson.features).items, 1, env.location.lat,
                         env.location.lng).threw
         THEN 0
         ELSE CountMatches(Val(geojson.features).items, 1, env.location.lat,
                           env.location.lng)

\* Mutant of PenaltyOfBody: an exception of the scan is not caught, and the
\* scan goes on past the feature that raised it.
PenaltyOfBody_skipBad(env, geojson) ==
    IF geojson.kind = "null" \/ geojson.features = None \/ ~Val(geojson.features).isArray
    THEN 0
    ELSE IF \E i \in 1..Len(Val(geojson.features).items) :
                ScanFeatures(<<Val(geojson.features).items[i]>>, 1, env.location.lat,
                             env.location.lng).penalty > 0
         THEN 5 ELSE 0

\* getActiveFirePenalty from the parsed body on (lines 620-649): a null body
\* throws on geojson.features and is caught; a body without a feature array
\* returns 0; else the scan, whose exceptions are caught and return 0.
PenaltyOfBody(env, geojson) ==
    IF geojson.kind = "null" THEN 0
    ELSE IF geojson.features = None \/ ~Val(geojson.features).isArray THEN 0
    ELSE ScanFeatures(Val(geojson.features).items, 1, env.location.lat,
                      env.location.lng).penalty

(***************************************************************************)
(* PART 6: getWildfireRisk                                                 *)
(***************************************************************************)
distanceTo(env, f) ==
    calculateDistance(env.location.lat, env.location.lng,
                      f.location.latitude, f.location.longitude)

\* historicalData.filter(dist <= limit)
firesWithin(env, data, limit) ==
    LET Near(f) == distanceTo(env, f) <= limit
    IN  SelectSeq(data, Near)

\* Mutant of adaptiveRadius: the dense bound taken inclusive.
adaptiveRadius_inclusive(quickCount) ==
    IF quickCount >= 20 THEN Km(30)
    ELSE IF quickCount < 5 THEN Km(75)
    ELSE Km(50)

\* The radius chosen from quickCandidate.length (lines 491, 502-506).
adaptiveRadius(quickCount) ==
    IF quickCount > 20 THEN Km(30)
    ELSE IF quickCount < 5 THEN Km(75)
    ELSE Km(50)

\* Array.prototype.sort with the distance comparator: stable, ascending.
RECURSIVE InsertByDistance(_, _, _)
InsertByDistance(env, sorted, f) ==
    IF sorted = <<>> THEN <<f>>
    ELSE IF distanceTo(env, f) < distanceTo(env, Head(sorted)) THEN <<f>> \o sorted
    ELSE <<Head(sorted)>> \o InsertByDistance(env, Tail(sorted), f)

RECURSIVE SortByDistance(_, _)
SortByDistance(env, fires) ==
    IF fires = <<>> THEN <<>>
    ELSE InsertByDistance(env, SortByDistance(env, SubSeq(fires, 1, Len(fires) - 1)),
                          fires[Len(fires)])

\* Mutant of nearestFiresOf: the candidates are cut without being sorted.
nearestFiresOf_unsorted(env, data, radius) ==
    LET candidateFires == firesWithin(env, data, radius)
    IN  SubSeq(candidateFires, 1, Min(15, Len(candidateFires)))

\* candidateFires filtered, sorted and sliced (lines 508-533).
nearestFiresOf(env, data, radius) ==
    LET candidateFires == SortByDistance(env, firesWithin(env, data, radius))
    IN  SubSeq(candidateFires, 1, Min(15, Len(candidateFires)))

\* Mutant of scoreBasedRiskOf: the bounds taken exclusive.
scoreBasedRiskOf_strict(totalScore) ==
    IF totalScore > Fx(35) THEN "extreme"
    ELSE IF totalScore > Fx(20) THEN "very high"
    ELSE IF totalScore > Fx(12) THEN "high"
    ELSE IF totalScore > Fx(6) THEN "medium"
    ELSE IF totalScore > Fx(2) THEN "low"
    ELSE "no risk"

\* scoreBasedRisk of determineRiskLevel (lines 562-573).
scoreBasedRiskOf(totalScore) ==
    IF totalScore >= Fx(35) THEN "extreme"
    ELSE IF totalScore >= Fx(20) THEN "very high"
    ELSE IF totalScore >= Fx(12) THEN "high"
    ELSE IF totalScore >= Fx(6) THEN "medium"
    ELSE IF totalScore >= Fx(2) THEN "low"
    ELSE "no risk"

\* Mutant of determineRiskLevel: the score-based level alone is returned.
determineRiskLevel_scoreOnly(totalScore, basicAssessmentLevel) ==
    scoreBasedRiskOf(totalScore)

\* Mutant of determineRiskLevel: a classifier level above "normal" is
\* returned whatever the score.
determineRiskLevel_floorFirst(totalScore, basicAssessmentLevel) ==
    IF indexOf(basicAssessmentLevel) > 2 THEN basicAssessmentLevel
    ELSE dangerLevels[Max(indexOf(scoreBasedRiskOf(totalScore)),
                          indexOf(basicAssessmentLevel))]

determineRiskLevel(totalScore, basicAssessmentLevel) ==
    LET scoreBasedIndex == indexOf(scoreBasedRiskOf(totalScore))
        basicAssessmentIndex == indexOf(basicAssessmentLevel)
    IN  dangerLevels[Max(scoreBasedIndex, basicAssessmentIndex)]

(***************************************************************************)
(* Processes: the calls of getWildfireRisk in flight.  A call runs from    *)
(* its entry to the awaited fetch in one step, then waits for the fetch,   *)
(* then for the body, then resumes in getWildfireRisk.                     *)
(***************************************************************************)
Procs == {1, 2}

NoEnv == [temperature |-> 0, airQuality |-> None, windSpeed |-> None, humidity |-> None,
          drynessIndex |-> None, timeOfDay |-> None, location |-> [lat |-> 0, lng |-> 0]]

NoAssessment == [level |-> "no risk", tempLevel |-> "no risk", aqiLevel |-> "no risk",
                 described |-> FALSE]

\* outcome: what the feed answered so far ("none", "rejected", "not ok",
\* "ok", "bad body", "body"); note: whether activeFireNote is non-empty.
\* at: the date new Date() gave to the factors of the call.
Blank(pc) ==
    [pc |-> pc, env |-> NoEnv, basicAssessment |-> NoAssessment, radius |-> 0,
     nearestFires |-> <<>>, baseScore |-> 0, totalScore |-> 0, outcome |-> "none",
     penalty |-> 0, riskLevel |-> "no risk", note |-> FALSE, at |-> EpochDate]

(***************************************************************************)
(* The in-memory danger zones of the route (inputData.ts).  A record keeps *)
(* the reading's temperature, its location and the level answered; a       *)
(* request without LocationLat and LocationLong is located at (0, 0).      *)
(* handlers are the callers that are handlers of GET /inputData; the other *)
(* callers use the exported functions directly.                            *)
(***************************************************************************)
NoLocation == [lat |-> 0, lng |-> 0]

newRecord(envData, location, level) ==
    [temperature |-> envData.temperature, location |-> location, dangerLevel |-> level]

\* dangerZones.findIndex(dist < 5): the first zone within 5 km, 0 for none.
existingIndex(zones, record) ==
    LET near == {i \in 1..Len(zones) :
                    calculateDistance(zones[i].location.lat, zones[i].location.lng,
                                      record.location.lat, record.location.lng) < Km(5)}
    IN  IF near = {} THEN 0 ELSE CHOOSE i \in near : \A j \in near : i <= j

\* Mutant of updateDangerZones: the list is not cut when a record is
\* inserted.
updateDangerZones_uncut(zones, record) ==
    LET i == existingIndex(zones, record)
    IN  IF i # 0 THEN [zones EXCEPT ![i] = record]
        ELSE <<record>> \o zones

\* Update if found, otherwise insert (lines 133-157).
updateDangerZones(zones, record) ==
    LET i == existingIndex(zones, record)
    IN  IF i # 0 THEN [zones EXCEPT ![i] = record]
        ELSE <<record>> \o SubSeq(zones, 1, Min(49, Len(zones)))

\* A direct call of the exported loadHistoricalWildfireData.
Load ==
    LET r == loadHistoricalWildfireData(historicalData, loaded)
    IN  /\ historicalData' = r.historicalData
        /\ loaded' = r.loaded
        /\ UNCHANGED <<fileStatus, now, requests, feed, call, handlers, dangerZones>>

\* getWildfireRisk from its entry to the fetch of getActiveFirePenalty
\* (lines 485-539 and 612).
Start(p) ==
    /\ call[p].pc = "idle"
    /\ \E env \in requests :
          LET r == loadHistoricalWildfireData(historicalData, loaded)
              quickCandidate == firesWithin(env, r.historicalData, Km(50))
              radius == adaptiveRadius(Len(quickCandidate))
              nearestFires == nearestFiresOf(env, r.historicalData, radius)
              totalScore == computeRiskFromHistoryAndRealTime(env, nearestFires, radius)
          IN  /\ historicalData' = r.historicalData
              /\ loaded' = r.loaded
              /\ call' = [call EXCEPT ![p] =
                            [Blank("fetch") EXCEPT !.env = env,
                                !.at = now,
                                !.basicAssessment = assessDangerLevel(env),
                                !.radius = radius,
                                !.nearestFires = nearestFires,
                                !.baseScore = totalScore,
                                !.totalScore = totalScore]]
    /\ UNCHANGED <<fileStatus, now, requests, feed, handlers, dangerZones>>

\* The fetch settles (lines 611-618 and 646-649): it rejects, or resolves
\* with a status that is not ok, and the penalty is 0; or it resolves ok and
\* the body is awaited.
FetchSettled(p) ==
    /\ call[p].pc = "fetch"
    /\ \E outcome \in {"rejected", "not ok", "ok"} :
          call' = [call EXCEPT ![p].outcome = outcome,
                               ![p].penalty = 0,
                               ![p].pc = IF outcome = "ok" THEN "json" ELSE "resume"]
    /\ UNCHANGED <<fileStatus, historicalData, loaded, now, requests, feed, handlers, dangerZones>>

\* res.json() settles (lines 618-649): the body is not JSON and the catch
\* returns 0, or it is the feed's document and the features are scanned.
JsonSettled(p) ==
    /\ call[p].pc = "json"
    /\ \E parsed \in BOOLEAN :
          call' = [call EXCEPT ![p].outcome = IF parsed THEN "body" ELSE "bad body",
                               ![p].penalty = IF parsed THEN PenaltyOfBody(call[p].env, feed)
                                              ELSE 0,
                               ![p].pc = "resume"]
    /\ UNCHANGED <<fileStatus, historicalData, loaded, now, requests, feed, handlers, dangerZones>>

\* getWildfireRisk after the await (lines 540-557).
Resume(p) ==
    /\ call[p].pc = "resume"
    /\ LET penalty == call[p].penalty
           totalScore == IF penalty > 0 THEN call[p].totalScore + Fx(penalty)
                         ELSE call[p].totalScore
       IN  call' = [call EXCEPT ![p].totalScore = totalScore,
                                ![p].note = penalty > 0,
                                ![p].riskLevel =
                                    determineRiskLevel(totalScore,
                                                       call[p].basicAssessment.level),
                                ![p].pc = "done"]
    /\ UNCHANGED <<fileStatus, historicalData, loaded, now, requests, feed, handlers, dangerZones>>

\* The caller takes the result.  The route handler goes on after its await
\* of getWildfireRisk (inputData.ts, lines 104-157): the record of the
\* reading is stored and answered.
Return(p) ==
    /\ call[p].pc = "done"
    /\ dangerZones' =
          IF p \in handlers
          THEN updateDangerZones(dangerZones,
                   newRecord(call[p].env, call[p].env.location, call[p].riskLevel))
          ELSE dangerZones
    /\ call' = [call EXCEPT ![p] = Blank("idle")]
    /\ UNCHANGED <<fileStatus, historicalData, loaded, now, requests, feed, handlers>>

\* A call of the exported assessDangerLevel.  The route handler calls it
\* for a request without location (inputData.ts, lines 83-157): the record
\* of the reading, located at (0, 0), is stored and answered in the same
\* step.
Classify(p) ==
    /\ call[p].pc = "idle"
    /\ \E env \in requests :
          /\ call' = [call EXCEPT ![p] =
                         [Blank("classified") EXCEPT !.env = env,
                             !.basicAssessment = assessDangerLevel(env)]]
          /\ dangerZones' =
                IF p \in handlers
                THEN updateDangerZones(dangerZones,
                         newRecord(env, NoLocation, assessDangerLevel(env).level))
                ELSE dangerZones
    /\ UNCHANGED <<fileStatus, historicalData, loaded, now, requests, feed, handlers>>

Taken(p) ==
    /\ call[p].pc = "classified"
    /\ call' = [call EXCEPT ![p] = Blank("idle")]
    /\ UNCHANGED <<fileStatus, historicalData, loaded, now, requests, feed, handlers, dangerZones>>

(***************************************************************************)
(* Time passes by months, MaxTicks times.                                  *)
(***************************************************************************)
MaxTicks == 1

Now0 == [y |-> 2026, m |-> 7, d |-> 1]

MonthsSince(date) == (date.y - Now0.y) * 12 + date.m - Now0.m

Tick ==
    /\ MonthsSince(now) < MaxTicks
    /\ now' = IF now.m = 12 THEN [now EXCEPT !.y = @ + 1, !.m = 1]
              ELSE [now EXCEPT !.m = @ + 1]
    /\ UNCHANGED <<fileStatus, historicalData, loaded, requests, feed, call, handlers, dangerZones>>

Next ==
    \/ Load
    \/ Tick
    \/ \E p \in Procs : Start(p)
    \/ \E p \in Procs : FetchSettled(p)
    \/ \E p \in Procs : JsonSettled(p)
    \/ \E p \in Procs : Resume(p)
    \/ \E p \in Procs : Return(p)
    \/ \E p \in Procs : Classify(p)
    \/ \E p \in Procs : Taken(p)

(***************************************************************************)
(* Inputs: the environmental readings callers send                         *)
(***************************************************************************)
Env(temperature, airQuality, extras, lat) ==
    [temperature |-> temperature, airQuality |-> airQuality,
     windSpeed |-> extras.windSpeed, humidity |-> extras.humidity,
     drynessIndex |-> extras.drynessIndex, timeOfDay |-> extras.timeOfDay,
     location |-> [lat |-> lat, lng |-> BaseLng]]

NoExtras == [windSpeed |-> None, humidity |-> None, drynessIndex |-> None, timeOfDay |-> None]

CalmExtras == [windSpeed |-> Some(25), humidity |-> Some(30), drynessIndex |-> Some(59),
               timeOfDay |-> Some(12)]

HarshExtras == [windSpeed |-> Some(61), humidity |-> Some(9), drynessIndex |-> Some(90),
                timeOfDay |-> Some(13)]

\* The query points: the base point, 30 km north of it, and 200 km north.
QueryLats == {BaseLat, BaseLat + 30, BaseLat + 200}

\* Every temperature and air-quality bucket, at and below each bound.
Temperatures == {-5, 4, 5, 14, 15, 24, 25, 34, 35, 44, 45, 59, 60, 61, 65}

AirQualities == {None} \cup {Some(a) : a \in {0, 49, 50, 99, 100, 149, 150, 199, 200, 299, 300, 310}}

ClassifierEnvs == {Env(t, a, NoExtras, BaseLat) : t \in Temperatures, a \in AirQualities}

StoreEnvs ==
    {Env(t, None, NoExtras, lat) : t \in {4, 30, 60, 65}, lat \in QueryLats}
    \cup {Env(t, Some(310), HarshExtras, lat) : t \in {4, 30, 60, 65}, lat \in QueryLats}

FeedEnvs == {Env(10, None, CalmExtras, lat) : lat \in QueryLats}

(***************************************************************************)
(* Inputs: the documents of the active-fire feed                           *)
(***************************************************************************)
Rect(minLat, maxLat, minLng, maxLng) ==
    <<<<minLng, minLat>>, <<maxLng, minLat>>, <<maxLng, maxLat>>, <<minLng, maxLat>>,
      <<minLng, minLat>>>>

Feature(type, coords) ==
    [kind |-> "object", geometry |-> Some([type |-> type, coordinates |-> Some(coords)])]

Rings(rings) == [shape |-> "rings", rings |-> rings]

Polygons(polygons) == [shape |-> "polygons", polygons |-> polygons]

\* A perimeter around the base point; one whose corner is the base point;
\* one north of both near query points; one at the base latitude but east
\* of it; two perimeters in one feature, south of the base point and north
\* of the second query point; a perimeter whose hole (second ring) holds
\* the base point.
AroundBase == Feature("Polygon", Rings(<<Rect(BaseLat - 3, BaseLat + 3, BaseLng - 3, BaseLng + 3)>>))

CornerAtBase == Feature("Polygon", Rings(<<Rect(BaseLat, BaseLat + 3, BaseLng, BaseLng + 3)>>))

NorthOfBoth == Feature("Polygon", Rings(<<Rect(BaseLat + 40, BaseLat + 50, BaseLng - 3, BaseLng + 3)>>))

EastOfBase == Feature("Polygon", Rings(<<Rect(BaseLat - 3, BaseLat + 3, BaseLng + 1, BaseLng + 5)>>))

TwoPerimeters ==
    Feature("MultiPolygon",
            Polygons(<<<<Rect(BaseLat - 13, BaseLat - 10, BaseLng - 3, BaseLng + 3)>>,
                       <<Rect(BaseLat + 40, BaseLat + 43, BaseLng - 3, BaseLng + 3)>>>>))

HoleAtBase ==
    Feature("Polygon", Rings(<<Rect(BaseLat + 10, BaseLat + 20, BaseLng - 3, BaseLng + 3),
                               Rect(BaseLat - 3, BaseLat + 3, BaseLng - 3, BaseLng + 3)>>))

\* Defective features: null; no geometry; no coordinates; a Polygon with
\* empty coordinates; a MultiPolygon with Polygon-shaped coordinates; a
\* Polygon with MultiPolygon-shaped coordinates; a Point.
NullFeature == [kind |-> "null"]

NoGeometry == [kind |-> "object", geometry |-> None]

NoCoordinates == [kind |-> "object", geometry |-> Some([type |-> "Polygon", coordinates |-> None])]

EmptyPolygon == Feature("Polygon", Rings(<<>>))

MislabelledMulti ==
    Feature("MultiPolygon", Rings(<<Rect(BaseLat - 3, BaseLat + 3, BaseLng - 3, BaseLng + 3)>>))

MislabelledPolygon ==
    Feature("Polygon", Polygons(<<<<Rect(BaseLat - 3, BaseLat + 3, BaseLng - 3, BaseLng + 3)>>>>))

PointFeature == Feature("Point", [shape |-> "point", point |-> <<BaseLng, BaseLat>>])

\* Every list of at most MaxFeatures of the main features; each of the
\* others alone and before a perimeter around the base point.
MainFeatures == {AroundBase, CornerAtBase, NorthOfBoth, TwoPerimeters, NullFeature, EmptyPolygon}

OtherFeatures == {EastOfBase, HoleAtBase, NoGeometry, NoCoordinates, MislabelledMulti,
                  MislabelledPolygon, PointFeature}

MaxFeatures == 2

FeatureLists ==
    UNION {[1..n -> MainFeatures] : n \in 0..MaxFeatures}
    \cup {<<f>> : f \in OtherFeatures} \cup {<<f, AroundBase>> : f \in OtherFeatures}

Collection(items) ==
    [kind |-> "object", features |-> Some([isArray |-> TRUE, items |-> items])]

\* A JSON null, an object without features, an object whose features is not
\* an array, and the feature collections.
Documents ==
    {[kind |-> "null"],
     [kind |-> "object", features |-> None],
     [kind |-> "object", features |-> Some([isArray |-> FALSE, items |-> <<>>])]}
    \cup {Collection(items) : items \in FeatureLists}

FewDocuments == {Collection(<<>>), Collection(<<NorthOfBoth, TwoPerimeters>>)}

(***************************************************************************)
(* Specifications.  All share Next and differ in the inputs drawn.         *)
(***************************************************************************)
InitWith(statuses, requestSets, documents, open) ==
    /\ fileStatus \in statuses
    /\ historicalData = <<>>
    /\ loaded = FALSE
    /\ now = Now0
    /\ requests \in requestSets
    /\ feed \in documents
    /\ call = [p \in Procs |-> IF p \in open THEN Blank("idle") ELSE Blank("closed")]
    /\ handlers = {}
    /\ dangerZones = <<>>

\* Every subset of readable datasets, one caller at a time.
Init == InitWith([Files -> {"ok", "unreadable"}], {{e} : e \in StoreEnvs}, FewDocuments, {1})

Spec == Init /\ [][Next]_vars

\* Every feed document, one caller at a time.
FeedInit ==
    InitWith({[f \in Files |-> "ok"]}, {{e} : e \in FeedEnvs}, Documents, {1})

FeedSpec == FeedInit /\ [][Next]_vars

\* Every classifier input.
ClassifierInit ==
    InitWith({[f \in Files |-> "ok"]}, {{e} : e \in ClassifierEnvs}, {Collection(<<>>)}, {1})

ClassifierSpec == ClassifierInit /\ [][Next]_vars

\* Every status of every dataset, one caller at a time.
LoadInit ==
    InitWith([Files -> FileStatuses], {{Env(10, None, NoExtras, BaseLat)}},
             {Collection(<<>>)}, {1})

LoadSpec == LoadInit /\ [][Next]_vars

\* Two callers whose calls interleave.
ConcurrentEnvs == {Env(60, None, NoExtras, BaseLat), Env(10, Some(120), CalmExtras, BaseLat + 30)}

ConcurrentInit ==
    InitWith({[f \in Files |-> "ok"], [f \in Files |-> IF f = 4 THEN "unreadable" ELSE "ok"],
              [f \in Files |-> IF f = 2 THEN "ok" ELSE "malformed"]},
             {ConcurrentEnvs}, {Collection(<<AroundBase>>)}, Procs)

ConcurrentSpec == ConcurrentInit /\ [][Next]_vars

\* Two callers whose calls interleave; a call that has resumed goes on, the
\* feed owes no answer.
FairSpec == ConcurrentInit /\ [][Next]_vars /\ \A p \in Procs : WF_vars(Resume(p))

\* Readings of every real-time bonus, over an empty and over a full store.
ScoreEnvs ==
    {Env(t, a, x, BaseLat) : t \in {10, 25, 35, 45, 65}, a \in {None, Some(310)},
                             x \in {NoExtras, CalmExtras, HarshExtras}}

ScoreInit ==
    InitWith({[f \in Files |-> "unreadable"], [f \in Files |-> "ok"]},
             {{e} : e \in ScoreEnvs}, FewDocuments, {1})

ScoreSpec == ScoreInit /\ [][Next]_vars

\* Every classifier input, over an empty and over a full store.
MergeInit ==
    InitWith({[f \in Files |-> "unreadable"], [f \in Files |-> "ok"]},
             {{e} : e \in ClassifierEnvs}, {Collection(<<>>)}, {1})

MergeSpec == MergeInit /\ [][Next]_vars

\* The zones stored by i earlier requests from places 10 km apart, far from
\* the base point, the most recent first.
OldZone(i) ==
    [temperature |-> 20, location |-> [lat |-> BaseLat + 1000 + 10 * i, lng |-> BaseLng],
     dangerLevel |-> "low"]

OldZones(n) == [i \in 1..n |-> OldZone(i)]

\* Readings at the base point and 2 km north of the second stored zone.
ZoneEnvs == {Env(10, None, NoExtras, BaseLat), Env(30, None, NoExtras, BaseLat + 1022)}

\* Two handlers of GET /inputData whose requests interleave, over a list of
\* zones that is one short of its limit, or at its limit.
ZoneInit ==
    /\ fileStatus = [f \in Files |-> IF f = 2 THEN "ok" ELSE "unreadable"]
    /\ historicalData = <<>>
    /\ loaded = FALSE
    /\ now = Now0
    /\ requests = ZoneEnvs
    /\ feed = Collection(<<>>)
    /\ call = [p \in Procs |-> Blank("idle")]
    /\ handlers = Procs
    /\ dangerZones \in {OldZones(n) : n \in {49, 50}}

ZoneSpec == ZoneInit /\ [][Next]_vars

(***************************************************************************)
(* Properties                                                              *)
(***************************************************************************)
\* The order no risk < normal < low < medium < high < very high < extreme.
Rank(level) ==
    CASE level = "no risk" -> 0
      [] level = "normal" -> 1
      [] level = "low" -> 2
      [] level = "medium" -> 3
      [] level = "high" -> 4
      [] level = "very high" -> 5
      [] level = "extreme" -> 6

\* The call has passed the synchronous part of getWildfireRisk.
Started(p) == call[p].pc \in {"fetch", "json", "resume", "done"}

Returned(p) == call[p].pc = "done"

\* C1: the riskLevel a call returns is the stronger of the level of its
\* final score and of the classifier's level for the same input: it is one
\* of the two and weaker than neither.
C1_FinalLevelIsStronger ==
    \A p \in Procs :
        Returned(p) =>
            LET scoreLevel == scoreBasedRiskOf(call[p].totalScore)
                floorLevel == assessDangerLevel(call[p].env).level
            IN  /\ call[p].riskLevel \in {scoreLevel, floorLevel}
                /\ Rank(call[p].riskLevel) >= Rank(scoreLevel)
                /\ Rank(call[p].riskLevel) >= Rank(floorLevel)

\* A call returns the classifier's level although its score alone gives a
\* weaker one.
C1_Witness ==
    \E p \in Procs :
        /\ Returned(p)
        /\ Len(historicalData) > 0
        /\ Rank(assessDangerLevel(call[p].env).level) > Rank(scoreBasedRiskOf(call[p].totalScore))
        /\ call[p].riskLevel = assessDangerLevel(call[p].env).level

\* C2: with a temperature of 60 or more the classifier's level and the
\* returned riskLevel are both "extreme".
C2_ExtremeTemperature ==
    \A p \in Procs :
        call[p].env.temperature >= 60 =>
            /\ (Started(p) \/ call[p].pc = "classified") =>
                   call[p].basicAssessment.level = "extreme"
            /\ Returned(p) => call[p].riskLevel = "extreme"

\* A call at exactly 60 degrees returns "extreme" on a score below 35, that
\* of a loaded store and of an active-fire penalty.
C2_Witness ==
    \E p \in Procs :
        /\ Returned(p)
        /\ call[p].env.temperature = 60
        /\ call[p].nearestFires # <<>>
        /\ call[p].penalty = 5
        /\ call[p].totalScore < Fx(35)
        /\ call[p].riskLevel = "extreme"

\* What one pass over the readable files yields, file by file.
RECURSIVE RecordsOfFilesFrom(_)
RecordsOfFilesFrom(f) ==
    IF f > 5 THEN <<>>
    ELSE (IF fileStatus[f] = "ok" THEN PushedFrom(FileContents(f), 1) ELSE <<>>)
         \o RecordsOfFilesFrom(f + 1)

\* C3: whatever calls were made, and however they interleave, the store is
\* empty before the first load and afterwards holds the records of a
\* single load, each once.
C3_LoadedAtMostOnce ==
    /\ ~loaded => historicalData = <<>>
    /\ loaded => historicalData = RecordsOfFilesFrom(1)

\* Two calls are in flight on a loaded, non-empty store: the second one
\* found the guard set.
C3_Witness ==
    /\ loaded
    /\ Len(historicalData) > 0
    /\ \A p \in Procs : Started(p)

\* The records a file contributes: those of its entries when it can be read
\* and parsed, none when it cannot.
Block(f) == IF fileStatus[f] = "ok" THEN PushedFrom(FileContents(f), 1) ELSE <<>>

RECURSIVE Offset(_)
\* The number of records the files before f contribute.
Offset(f) == IF f = 1 THEN 0 ELSE Offset(f - 1) + Len(Block(f - 1))

\* C4: after a load the guard is set and the store holds, in file order,
\* the records of every file that could be read and parsed, whichever
\* files failed; a call never starts without the load having completed.
C4_FailedSourceSkippedAlone ==
    /\ loaded =>
          /\ Len(historicalData) = Offset(Len(files) + 1)
          /\ \A f \in Files :
                LET block == Block(f)
                    offset == Offset(f)
                IN  SubSeq(historicalData, offset + 1, offset + Len(block)) = block
    /\ \A p \in Procs : Started(p) => loaded

\* A load with an unreadable file and a malformed one between readable
\* files has completed, and the store holds the records of the last file.
C4_Witness ==
    /\ loaded
    /\ fileStatus = <<"ok", "unreadable", "ok", "malformed", "ok">>
    /\ Len(historicalData) = Len(PushedFrom(FileContents(1), 1))
                             + Len(PushedFrom(FileContents(3), 1))
                             + Len(PushedFrom(FileContents(5), 1))
    /\ historicalData[Len(historicalData)].location.latitude = EntryLat(5, RecordsPerFile)

(***************************************************************************)
(* The feed as the claims describe it                                      *)
(***************************************************************************)
HasFeatureArray(doc) ==
    doc.kind = "object" /\ doc.features # None /\ Val(doc.features).isArray

ItemsOf(doc) == IF HasFeatureArray(doc) THEN Val(doc.features).items ELSE <<>>

\* A feature the scan cannot read: null, or coordinates whose nesting makes
\* the bounding-box computation raise.
MalformedGeometry(feature) ==
    \/ feature.kind = "null"
    \/ /\ feature.geometry # None
       /\ Val(feature.geometry).coordinates # None
       /\ getBoundingBoxThrows(Val(feature.geometry).type,
                               Val(Val(feature.geometry).coordinates))

PointsOfRings(rings) == UNION {{rings[r][i] : i \in 1..Len(rings[r])} : r \in 1..Len(rings)}

\* The points the bounding box of a feature is taken over: the first ring
\* of a Polygon, every ring of every polygon of a MultiPolygon.
BoxPoints(feature) ==
    IF feature.kind = "null" \/ feature.geometry = None
       \/ Val(feature.geometry).coordinates = None
    THEN {}
    ELSE LET type == Val(feature.geometry).type
             coords == Val(Val(feature.geometry).coordinates)
         IN  IF type = "Polygon" /\ coords.shape = "rings" /\ coords.rings # <<>>
             THEN PointsOfRings(<<coords.rings[1]>>)
             ELSE IF type = "MultiPolygon" /\ coords.shape = "polygons"
             THEN UNION {PointsOfRings(coords.polygons[q]) : q \in 1..Len(coords.polygons)}
             ELSE {}

\* The point lies inside the feature's bounding box, bounds included.
InBoxOf(feature, lat, lng) ==
    LET pts == BoxPoints(feature)
    IN  /\ \E a \in pts : a[2] <= lat
        /\ \E b \in pts : b[2] >= lat
        /\ \E c \in pts : c[1] <= lng
        /\ \E d \in pts : d[1] >= lng

Matches(p, i) ==
    InBoxOf(ItemsOf(feed)[i], call[p].env.location.lat, call[p].env.location.lng)

\* The scan reaches a malformed feature: none before it holds the point.
ScanReachesMalformed(p) ==
    \E i \in 1..Len(ItemsOf(feed)) :
        /\ MalformedGeometry(ItemsOf(feed)[i])
        /\ \A j \in 1..(i - 1) : ~Matches(p, j)

\* The first feature whose box holds the point comes before any malformed one.
ScanReachesMatch(p) ==
    \E i \in 1..Len(ItemsOf(feed)) :
        /\ Matches(p, i)
        /\ \A j \in 1..(i - 1) : ~MalformedGeometry(ItemsOf(feed)[j])

Settled(p) == call[p].pc \in {"resume", "done"}

NoPenaltyApplied(p) ==
    /\ call[p].penalty = 0
    /\ Returned(p) => call[p].totalScore = call[p].baseScore /\ ~call[p].note

PenaltyAdded(p) == call[p].totalScore - call[p].baseScore

\* C6 as stated: the penalty is 0 or 5, and 5 as soon as the box of at least
\* one feature of the feed holds the point.
C6_AnyMatchMeansFive ==
    \A p \in Procs :
        Settled(p) =>
            /\ call[p].penalty \in {0, 5}
            /\ Returned(p) => PenaltyAdded(p) = Fx(call[p].penalty)
            /\ (call[p].outcome = "body" /\ \E i \in 1..Len(ItemsOf(feed)) : Matches(p, i))
               => call[p].penalty = 5

\* C6, amended: the penalty is 0 or 5; it is 5 when the box of a feature
\* holds the point and no feature before the first such one is malformed,
\* however many boxes hold the point; it is 0 when no box holds it.
C6_PenaltyOnceOrNever ==
    \A p \in Procs :
        Settled(p) =>
            /\ call[p].penalty \in {0, 5}
            /\ Returned(p) => PenaltyAdded(p) = Fx(call[p].penalty)
            /\ (call[p].outcome = "body" /\ ScanReachesMatch(p)) => call[p].penalty = 5
            /\ call[p].penalty = 5 =>
                  call[p].outcome = "body" /\ \E i \in 1..Len(ItemsOf(feed)) : Matches(p, i)

\* A call has returned from a feed two of whose features hold the point, one
\* of them with the point on its corner, and 5 was added.
C6_Witness ==
    \E p \in Procs :
        /\ Returned(p)
        /\ call[p].outcome = "body"
        /\ ItemsOf(feed) = <<CornerAtBase, AroundBase>>
        /\ Matches(p, 1) /\ Matches(p, 2)
        /\ PenaltyAdded(p) = Fx(5)
        /\ call[p].note

\* C7: a call that waits for the feed returns in the end.
C7_EveryCallReturns ==
    \A p \in Procs : (call[p].pc = "fetch") ~> (call[p].pc = "done")

(***************************************************************************)
(* Candidate selection as the claims describe it                           *)
(***************************************************************************)
\* The number of store records within km kilometres of the call's point.
CountWithin(p, km) ==
    Cardinality({k \in 1..Len(historicalData) :
                    distanceTo(call[p].env, historicalData[k]) <= 1000 * km})

\* C8: the working radius is 30 km when more than 20 store records lie
\* within 50 km of the point, 75 km when fewer than 5 do, else 50 km.
C8_RadiusByDensity ==
    \A p \in Procs :
        Started(p) =>
            LET n == CountWithin(p, 50)
            IN  /\ n > 20 => call[p].radius = 30000
                /\ n < 5 => call[p].radius = 75000
                /\ (n >= 5 /\ n <= 20) => call[p].radius = 50000
                /\ call[p].radius \in {30000, 50000, 75000}

\* A call in a dense region works with 30 km.
C8_Witness ==
    \E p \in Procs : Started(p) /\ CountWithin(p, 50) > 20 /\ call[p].radius = 30000

\* C9: the candidates are at most 15 store records within the working
\* radius, in ascending order of distance, and no store record left out is
\* strictly closer than one of them; there are 15 of them, or all the
\* records within the radius.
C9_NearestCandidates ==
    \A p \in Procs :
        Started(p) =>
            LET list == call[p].nearestFires
                d(f) == distanceTo(call[p].env, f)
                inList(f) == \E i \in 1..Len(list) : list[i] = f
                within == {k \in 1..Len(historicalData) :
                              d(historicalData[k]) <= call[p].radius}
            IN  /\ Len(list) <= 15
                /\ Len(list) = IF Cardinality(within) < 15 THEN Cardinality(within) ELSE 15
                /\ \A i \in 1..Len(list) :
                      /\ d(list[i]) <= call[p].radius
                      /\ \E k \in 1..Len(historicalData) : historicalData[k] = list[i]
                /\ \A i \in 1..Len(list) : \A j \in 1..Len(list) :
                      i < j => d(list[i]) <= d(list[j])
                /\ \A k \in 1..Len(historicalData) :
                      ~inList(historicalData[k]) =>
                          \A i \in 1..Len(list) : d(historicalData[k]) >= d(list[i])

\* A call has 15 candidates and left out a record within its radius.
C9_Witness ==
    \E p \in Procs :
        /\ Started(p)
        /\ Len(call[p].nearestFires) = 15
        /\ \E k \in 1..Len(historicalData) :
              /\ distanceTo(call[p].env, historicalData[k]) <= call[p].radius
              /\ \A i \in 1..15 : call[p].nearestFires[i] # historicalData[k]

(***************************************************************************)
(* The classifier as the claim describes it                                *)
(***************************************************************************)
TemperatureBucket(t) ==
    CASE t >= 60 -> "extreme"
      [] t >= 45 /\ t < 60 -> "very high"
      [] t >= 35 /\ t < 45 -> "high"
      [] t >= 25 /\ t < 35 -> "medium"
      [] t >= 15 /\ t < 25 -> "low"
      [] t >= 5 /\ t < 15 -> "normal"
      [] t < 5 -> "no risk"

AirQualityBucket(a) ==
    CASE a >= 300 -> "extreme"
      [] a >= 200 /\ a < 300 -> "very high"
      [] a >= 150 /\ a < 200 -> "high"
      [] a >= 100 /\ a < 150 -> "medium"
      [] a >= 50 /\ a < 100 -> "low"
      [] a < 50 -> "normal"

\* C10: the temperature level is the highest bucket whose inclusive lower
\* bound the temperature reaches, the air-quality level likewise when air
\* quality is present, and the overall level is the stronger of the two.
C10_ClassifierBuckets ==
    \A p \in Procs :
        (Started(p) \/ call[p].pc = "classified") =>
            LET env == call[p].env
                a == call[p].basicAssessment
            IN  /\ a.tempLevel = TemperatureBucket(env.temperature)
                /\ env.airQuality # None => a.aqiLevel = AirQualityBucket(Val(env.airQuality))
                /\ env.airQuality # None =>
                      /\ a.level \in {a.tempLevel, a.aqiLevel}
                      /\ Rank(a.level) >= Rank(a.tempLevel)
                      /\ Rank(a.level) >= Rank(a.aqiLevel)
                /\ env.airQuality = None => a.level = a.tempLevel

\* An input is classified by its air quality, at a bound, above a weaker
\* temperature level.
C10_Witness ==
    \E p \in Procs :
        /\ call[p].pc = "classified"
        /\ call[p].env.temperature = 45
        /\ call[p].env.airQuality = Some(300)
        /\ call[p].basicAssessment.tempLevel = "very high"
        /\ call[p].basicAssessment.level = "extreme"

(***************************************************************************)
(* Score thresholds                                                        *)
(***************************************************************************)
\* The level the thresholds 35, 20, 12, 6, 2 give to a score, by the whole
\* part of the score.
LevelByThreshold(totalScore) ==
    LET whole == totalScore \div ScoreScale
    IN  CASE whole >= 35 -> "extreme"
          [] whole \in 20..34 -> "very high"
          [] whole \in 12..19 -> "high"
          [] whole \in 6..11 -> "medium"
          [] whole \in 2..5 -> "low"
          [] OTHER -> "no risk"

\* The sum of the real-time bonuses of a reading, as a score.
RealTimeBonuses(env) ==
    Fx(temperatureBonus(env) + airQualityBonus(env) + drynessBonus(env)
       + humidityBonus(env) + windBonus(env) + timeOfDayBonus(env))

BareReading(env, temperature) ==
    /\ env.temperature = temperature
    /\ env.airQuality = None
    /\ env.windSpeed = None /\ env.humidity = None
    /\ env.drynessIndex = None /\ env.timeOfDay = None

\* C11: the score-based level of a returned call follows the thresholds
\* 35, 20, 12, 6, 2 and is never "normal"; over an empty store and without
\* active-fire penalty the score is the sum of the real-time bonuses, so a
\* bare reading of 65 degrees scores 20, "very high" by score and "extreme"
\* in the end, and a bare reading of 10 degrees scores 0, "no risk" by score
\* and "normal" in the end.
C11_ScoreThresholds ==
    \A p \in Procs :
        Returned(p) =>
            LET env == call[p].env
                scoreLevel == scoreBasedRiskOf(call[p].totalScore)
                alone == historicalData = <<>> /\ call[p].penalty = 0
            IN  /\ scoreLevel = LevelByThreshold(call[p].totalScore)
                /\ scoreLevel # "normal"
                /\ alone => call[p].totalScore = RealTimeBonuses(env)
                /\ (alone /\ BareReading(env, 65)) =>
                       /\ call[p].totalScore = Fx(20)
                       /\ scoreLevel = "very high"
                       /\ call[p].riskLevel = "extreme"
                /\ (alone /\ BareReading(env, 10)) =>
                       /\ call[p].totalScore = 0
                       /\ scoreLevel = "no risk"
                       /\ call[p].riskLevel = "normal"

\* A bare reading of 65 degrees returns over an empty store with score 20.
C11_Witness ==
    \E p \in Procs :
        /\ Returned(p)
        /\ historicalData = <<>> /\ loaded
        /\ call[p].penalty = 0
        /\ BareReading(call[p].env, 65)
        /\ call[p].totalScore = Fx(20)
        /\ call[p].riskLevel = "extreme"

(***************************************************************************)
(* The reconciliation of two levels                                        *)
(***************************************************************************)
Levels == {dangerLevels[i] : i \in 1..Len(dangerLevels)}

\* One score at the lower bound of each score-based level.
SampleScores == {0, Fx(2), Fx(6), Fx(12), Fx(20), Fx(35)}

\* m is a lawful merge of a and b: a level, one of the two, weaker than
\* neither (so a itself when both are equal).
LawfulMerge(m, a, b) ==
    /\ m \in Levels
    /\ m \in {a, b}
    /\ Rank(m) >= Rank(a) /\ Rank(m) >= Rank(b)
    /\ a = b => m = a

\* C12: the merge of two levels is total, idempotent and commutative, and
\* gives one of the two, never the weaker.  Whatever pair of per-factor
\* levels the classifier met, its overall level is a lawful merge and is
\* the level it gives to every reading with the two levels exchanged;
\* whatever score level and classifier level a returned call met, its
\* riskLevel is a lawful merge, is what determineRiskLevel gives with the
\* two exchanged, and is what the classifier gives to the same pair.
C12_MergeLaws ==
    \A p \in Procs :
        /\ call[p].pc \in {"classified", "fetch", "json", "resume", "done"} =>
               LET a == call[p].basicAssessment.tempLevel
                   b == call[p].basicAssessment.aqiLevel
                   m == call[p].basicAssessment.level
               IN  /\ LawfulMerge(m, a, b)
                   /\ \A e \in ClassifierEnvs :
                          (tempLevelOf(e.temperature) = b /\ aqiLevelOf(e.airQuality) = a)
                              => assessDangerLevel(e).level = m
        /\ Returned(p) =>
               LET a == scoreBasedRiskOf(call[p].totalScore)
                   b == call[p].basicAssessment.level
                   m == call[p].riskLevel
               IN  /\ LawfulMerge(m, a, b)
                   /\ \A t \in SampleScores :
                          scoreBasedRiskOf(t) = b => determineRiskLevel(t, a) = m
                   /\ \A e \in ClassifierEnvs :
                          (tempLevelOf(e.temperature) = a /\ aqiLevelOf(e.airQuality) = b)
                              => assessDangerLevel(e).level = m

\* A call returns whose score level is weaker than the classifier's level,
\* and the classifier's level is one a score can have.
C12_Witness ==
    \E p \in Procs :
        /\ Returned(p)
        /\ Rank(scoreBasedRiskOf(call[p].totalScore)) < Rank(call[p].basicAssessment.level)
        /\ \E t \in SampleScores : scoreBasedRiskOf(t) = call[p].basicAssessment.level
        /\ call[p].basicAssessment.tempLevel # call[p].basicAssessment.aqiLevel
        /\ call[p].riskLevel = call[p].basicAssessment.level

(***************************************************************************)
(* Consecutive-year penalty                                                *)
(***************************************************************************)
YearsOf(fires) == {fires[i].date.y : i \in 1..Len(fires)}

\* The number of consecutive years of S from y on.
RECURSIVE RunLength(_, _)
RunLength(S, y) == IF y \in S THEN 1 + RunLength(S, y + 1) ELSE 0

\* 0.2 for a run of exactly 2 years, 0.5 for exactly 3, 1.0 for 4 or more.
RunPenalty(length) ==
    CASE length = 2 -> 2000
      [] length = 3 -> 5000
      [] length >= 4 -> 10000
      [] OTHER -> 0

\* The sum of the run penalties over the maximal runs of a set of years.
PenaltyOfYearSet(S) ==
    LET firstYears == {y \in S : y - 1 \notin S}
    IN  SumOver(firstYears, [y \in firstYears |-> RunPenalty(RunLength(S, y))])

\* C13: the consecutive-year penalty of the candidates of a call is the sum
\* of the run penalties over the maximal runs of consecutive years among
\* the candidates' years; it depends on the set of years alone, whatever
\* the number of candidates in one year.
C13_PenaltyBySetOfYears ==
    \A p \in Procs :
        Started(p) =>
            getConsecutiveYearPenalty(call[p].nearestFires)
                = PenaltyOfYearSet(YearsOf(call[p].nearestFires))

(***************************************************************************)
(* Absent air quality                                                      *)
(***************************************************************************)
\* The score of a reading over its candidates with the air-quality term
\* left out.
ScoreWithoutAirQuality(env, fires, maxRadius) ==
    historicalScoreOf(env, fires, maxRadius)
    + getConsecutiveYearPenalty(fires) + getOverlappingFiresPenalty(fires)
    + Fx(Min(Len(fires), 5))
    + Fx(temperatureBonus(env) + drynessBonus(env) + humidityBonus(env)
         + windBonus(env) + timeOfDayBonus(env))

\* C14: for a reading without airQuality, the step that classifies it
\* gives the temperature level, the step that scores it gives the score
\* without air-quality term, and the step that ends the call gives the
\* riskLevel of that score (with the active-fire penalty) and of the
\* temperature level.
C14_AbsentAirQualityAddsNothing ==
    [][\A p \in Procs :
          LET before == call[p]
              after == call'[p]
          IN  after.env.airQuality = None =>
                  /\ (before.pc = "idle" /\ after.pc \in {"classified", "fetch"}) =>
                         after.basicAssessment.level = tempLevelOf(after.env.temperature)
                  /\ (before.pc = "idle" /\ after.pc = "fetch") =>
                         after.baseScore
                             = ScoreWithoutAirQuality(after.env, after.nearestFires,
                                                      after.radius)
                  /\ (before.pc = "resume" /\ after.pc = "done") =>
                         after.riskLevel
                             = determineRiskLevel(before.baseScore + Fx(before.penalty),
                                                  tempLevelOf(before.env.temperature))]_vars

\* A reading without airQuality returns with a score from the store and
\* from its other real-time terms.
C14_Witness ==
    \E p \in Procs :
        /\ Returned(p)
        /\ call[p].env.airQuality = None
        /\ call[p].nearestFires # <<>>
        /\ windBonus(call[p].env) > 0
        /\ call[p].baseScore > Fx(20)

(***************************************************************************)
(* Determinism                                                             *)
(***************************************************************************)
\* Two returned calls had the same input and the same answer of the feed
\* (the store is the same: it is loaded once).
SameQuestion(p, q) ==
    /\ Returned(p) /\ Returned(q)
    /\ call[p].env = call[q].env
    /\ call[p].outcome = call[q].outcome

SameAnswer(p, q) ==
    /\ call[p].riskLevel = call[q].riskLevel
    /\ call[p].totalScore = call[q].totalScore

RecordsWithCoordinates(f) ==
    LET kept == SelectSeq(FileContents(f), hasCoordinates)
    IN  [i \in 1..Len(kept) |-> unifyRecord(kept[i])]

RECURSIVE StoreOfFilesFrom(_)
StoreOfFilesFrom(f) ==
    IF f > Len(files) THEN <<>>
    ELSE (IF fileStatus[f] = "ok" THEN RecordsWithCoordinates(f) ELSE <<>>)
         \o StoreOfFilesFrom(f + 1)

\* C16: after the load the store holds, for every readable file, exactly
\* the entries with a numeric latitude and longitude: an entry without
\* them, a null or scalar entry included, is dropped alone, the entries
\* before and after it are added.
C16_EntryAddedIffCoordinates ==
    loaded => historicalData = StoreOfFilesFrom(1)

(***************************************************************************)
(* The store after the load                                                *)
(***************************************************************************)
\* C17: once the store is loaded no step, of one call or of interleaved
\* calls, changes its content, its order or the load guard.
C17_StoreReadOnlyAfterLoad ==
    [][loaded => (historicalData' = historicalData /\ loaded' = loaded)]_vars

\* Two calls have worked on the loaded store, one has returned, and the
\* candidates of each are ordered otherwise than the store.
C17_Witness ==
    \E p, q \in Procs :
        /\ p # q
        /\ loaded /\ Len(historicalData) > 15
        /\ Returned(p) /\ Started(q)
        /\ call[p].env # call[q].env
        /\ \A r \in {p, q} :
              /\ Len(call[r].nearestFires) > 1
              /\ call[r].nearestFires
                     # SubSeq(firesWithin(call[r].env, historicalData, call[r].radius),
                              1, Len(call[r].nearestFires))

(***************************************************************************)
(* The danger zones of GET /inputData                                      *)
(***************************************************************************)
Within5Km(zone, record) ==
    calculateDistance(zone.location.lat, zone.location.lng,
                      record.location.lat, record.location.lng) < Km(5)

\* The records a step may have stored: of a handler that resumes after its
\* risk assessment, or of a handler that classifies a reading without
\* location.
StoredBy(p) ==
    IF call[p].pc = "done"
    THEN {newRecord(call[p].env, call[p].env.location, call[p].riskLevel)}
    ELSE IF call[p].pc = "idle" /\ call'[p].pc = "classified"
    THEN {newRecord(call'[p].env, NoLocation, call'[p].basicAssessment.level)}
    ELSE {}

\* The list after a record was stored: the record in the place of a zone
\* within 5 km of it, the length unchanged; or, when no zone is that near,
\* the record in front of the 49 first zones.
LawfulUpdate(old, new, record) ==
    IF \E i \in 1..Len(old) : Within5Km(old[i], record)
    THEN /\ Len(new) = Len(old)
         /\ \E i \in 1..Len(old) :
               /\ Within5Km(old[i], record)
               /\ new = [old EXCEPT ![i] = record]
    ELSE /\ new[1] = record
         /\ Len(new) = Min(Len(old), 49) + 1
         /\ \A i \in 2..Len(new) : new[i] = old[i - 1]

\* C18: the list of danger zones never holds more than 50 records, and
\* every step that changes it, of handlers that interleave at their
\* awaited risk assessment too, stores one record: in the place of a zone
\* within 5 km, or in front of the list cut to its 49 first records.
C18_AtMostFiftyZones ==
    /\ [](Len(dangerZones) <= 50)
    /\ [][dangerZones' # dangerZones =>
              \E p \in handlers : \E record \in StoredBy(p) :
                  LawfulUpdate(dangerZones, dangerZones', record)]_vars

\* The list is at its limit with a new record in front, the 50th of the
\* older zones is gone, a record has replaced the second older zone in its
\* place, and another request is waiting for its risk assessment.
C18_Witness ==
    /\ Len(dangerZones) = 50
    /\ dangerZones[1].location.lat = BaseLat
    /\ dangerZones[50] = OldZone(49)
    /\ dangerZones[3].location.lat = BaseLat + 1022
    /\ \E p \in handlers : call[p].pc = "fetch"

====
